---- MODULE Spec2Model ----
(***************************************************************************)
(* Sandbox lifecycle controller of modal_app.py: the JSON registry on the  *)
(* shared volume, the remote sandboxes it refers to, and the request       *)
(* handlers create/start/stop/delete that the portal function runs         *)
(* concurrently (threads of one container).  Every blocking call (registry *)
(* read, the two halves of a registry write, each platform call) is one    *)
(* step of the handler that makes it.                                      *)
(***************************************************************************)
EXTENDS Integers, Sequences, FiniteSets, TLC

\* ------------------------------------------------------------------ bounds
\* request threads that may be in flight at once in specification Spec
NProcs == 2
\* sandbox ids (uuid4 values) that create may draw
MaxEntries == 2
\* requests the portal receives in one behaviour
MaxRequests == 3
\* calls to the platform or the volume that may raise in one behaviour
MaxFaults == 2

Procs == 1 .. NProcs
SeqProcs == {1}

\* ------------------------------------------------------- program constants
\* image=sandbox_image: the base image, as opposed to a snapshot image id
sandbox_image == 0
\* entry.get("snapshot_image_id") of an entry that has no such key
NoSnapshot == 0
\* object_id of no sandbox
NoSandbox == 0
\* gpu=None
NoGpu == <<>>

\* form values of the create request: (name, cpu, memory, gpu_type, gpu_count)
Forms ==
  {[name |-> "a", cpu |-> 4, memory |-> 4096, gpu_type |-> "", gpu_count |-> 1],
   [name |-> "b", cpu |-> 2, memory |-> 8192, gpu_type |-> "T4", gpu_count |-> 2]}
\* the forms specification SpecGpu draws: also a GPU type with count 0
GpuForms ==
  Forms \cup
    {[name |-> "c", cpu |-> 4, memory |-> 4096, gpu_type |-> "A100", gpu_count |-> 0]}
\* the form specification Spec draws (one, to keep it explorable)
ConcForms == {f \in Forms : f.name = "a"}

\* outcome of a call to the platform or to the volume
Ok == "ok"
Raise == "raise"
Outcomes == {Ok, Raise}
NoFault == {Ok}

\* ------------------------------------------------------------ registry file
\* REGISTRY_PATH on the volume: absent, present but not JSON (an "open(w)"
\* truncated it and nothing has been dumped yet), or a JSON list of entries
MissingFile == [st |-> "missing", data |-> <<>>]
TruncatedFile == [st |-> "corrupt", data |-> <<>>]
JsonFile(entries) == [st |-> "ok", data |-> entries]

NoEntry ==
  [id |-> 0, name |-> "", modal_sandbox_id |-> NoSandbox, cpu |-> 0, memory |-> 0,
   gpu_type |-> "", gpu_count |-> 0, snapshot_image_id |-> NoSnapshot]

_read_registry_strict(f) == IF f.st = "ok" THEN f.data ELSE <<NoEntry>>

\* _read_registry: json.load of the file, [] when missing or unparsable
_read_registry(f) == IF f.st = "ok" THEN f.data ELSE <<>>

Ids(entries) == {entries[i].id : i \in 1 .. Len(entries)}

FirstIndex(entries, sandbox_id) ==
  IF sandbox_id \in Ids(entries)
  THEN CHOOSE i \in 1 .. Len(entries) :
         /\ entries[i].id = sandbox_id
         /\ \A j \in 1 .. i - 1 : entries[j].id /= sandbox_id
  ELSE 0

\* _get_registry_entry: the first entry with that id, None (NoEntry) if none
_get_registry_entry(f, sandbox_id) ==
  LET entries == _read_registry(f)
      i == FirstIndex(entries, sandbox_id)
  IN IF i = 0 THEN NoEntry ELSE entries[i]

AppendEntry_front(entries, entry) == <<entry>> \o entries

AppendEntry_only(entries, entry) == <<entry>>

\* entries.append(entry) of _add_registry_entry
AppendEntry(entries, entry) == Append(entries, entry)

RemoveEntry_keeps(entries, sandbox_id) ==
  SelectSeq(entries, LAMBDA e : e.id = sandbox_id)

\* [e for e in entries if e["id"] != sandbox_id] of _remove_registry_entry
RemoveEntry(entries, sandbox_id) ==
  SelectSeq(entries, LAMBDA e : e.id /= sandbox_id)

\* for e in entries: if e["id"] == sandbox_id: e[key] = value; break
SetSnapshot(entries, sandbox_id, image_id) ==
  LET i == FirstIndex(entries, sandbox_id)
  IN IF i = 0 THEN entries
     ELSE [entries EXCEPT ![i].snapshot_image_id = image_id]

SetSandbox(entries, sandbox_id, object_id) ==
  LET i == FirstIndex(entries, sandbox_id)
  IN IF i = 0 THEN entries
     ELSE [entries EXCEPT ![i].modal_sandbox_id = object_id]

GpuSpec_type_only(gpu_type, gpu_count) ==
  IF gpu_type /= "" THEN <<gpu_type, gpu_count>> ELSE NoGpu

\* gpu = None; if gpu_type and gpu_count > 0: gpu = "type:count" (or "type")
GpuSpec(gpu_type, gpu_count) ==
  IF gpu_type /= "" /\ gpu_count > 0 THEN <<gpu_type, gpu_count>> ELSE NoGpu

\* create_sandbox: gpu_count=int(gpu_count) if gpu_type else 0
FormGpuCount(gpu_type, gpu_count) == IF gpu_type /= "" THEN gpu_count ELSE 0

_resolve_sandbox_image_base(entry, o) == sandbox_image

\* _resolve_sandbox_image: the snapshot image if the entry has one and
\* Image.from_id does not raise, otherwise the base image
_resolve_sandbox_image(entry, o) ==
  IF entry.snapshot_image_id /= NoSnapshot /\ o = Ok
  THEN entry.snapshot_image_id
  ELSE sandbox_image

VARIABLES
  file,        \* the registry file on the volume
  sandboxes,   \* the platform's sandboxes, by object id (index)
  snapshots,   \* the platform's snapshot images, by object id (index)
  workspaces,  \* ids whose workspace folder exists on the volume
  uuids,       \* sandbox ids uuid4 has produced so far
  th,          \* per request thread: its handler's position and locals
  faults,      \* calls that have raised so far
  requests,    \* requests received so far
  life,        \* history, per id: "new", "failed" (its Sandbox.create raised),
               \* "added", "deleting", "deleted"
  maxsnap,     \* history, per id: the latest snapshot the registry has held for it
  stopsnap     \* history, per id: the snapshot its last stop took, until the
               \* next request on that id begins

vars == <<file, sandboxes, snapshots, workspaces, uuids, th, faults, requests,
          life, maxsnap, stopsnap>>

AllIds == 1 .. MaxEntries

\* a thread's locals:
\*   pc      where the handler stands
\*   kind,id the request
\*   entry   the handler's entry dict
\*   buf     the entries list it is about to write
\*   sb      object id of the Sandbox it holds
\*   img     object id of the snapshot image it took
\*   result  "ok" (the handler returned) or "error" (it raised)
\*   args    create only: the arguments passed to _create_sandbox
\*   given   create only: the gpu_count of the form
\*   calls   history: the calls the request has issued so far
\*   raised  history: those of them that raised
\*   waslive history: whether the polled sandbox was live when polled
\*   before  history: the registry file when the request began
\*   expect  history: stopsnap of the id when the request began
\*   prev    history: kind and id of the thread's previous request
\*   view    dashboard only: the items {**entry, "status": status} built so far
\*   obs     history: for each of those polls, whether it raised and whether
\*           the sandbox was live
\*   raced   history: one of the request's registry loads fell between another
\*           thread's load and replace, or another's fell between its own
NoArgs == [name |-> "", cpu |-> 0, memory |-> 0, gpu_type |-> "", gpu_count |-> 0]

NoRequest == [kind |-> "none", id |-> 0]

IdleThread ==
  [pc |-> "idle", kind |-> "none", id |-> 0, entry |-> NoEntry, buf |-> <<>>,
   sb |-> NoSandbox, img |-> NoSnapshot, result |-> "none", args |-> NoArgs,
   given |-> 0,
   calls |-> {}, raised |-> {}, waslive |-> FALSE, before |-> MissingFile,
   expect |-> NoSnapshot, prev |-> NoRequest, view |-> <<>>, obs |-> <<>>,
   raced |-> FALSE]

Init ==
  /\ file = MissingFile
  /\ sandboxes = <<>>
  /\ snapshots = <<>>
  /\ workspaces = {}
  /\ uuids = {}
  /\ th = [p \in Procs |-> IdleThread]
  /\ faults = 0
  /\ requests = 0
  /\ life = [i \in AllIds |-> "new"]
  /\ maxsnap = [i \in AllIds |-> NoSnapshot]
  /\ stopsnap = [i \in AllIds |-> NoSnapshot]

\* ---------------------------------------------------------------- platform
IsLive(h) == h \in 1 .. Len(sandboxes) /\ sandboxes[h].status = "live"

PollLive_any(h, o) == o = Ok

\* sb.poll() is None: the platform answered and the sandbox has not exited
PollLive(h, o) == o = Ok /\ IsLive(h)

_get_sandbox_status_optimistic(entry, o) ==
  IF o = Ok /\ ~IsLive(entry.modal_sandbox_id) THEN "stopped" ELSE "running"

\* _get_sandbox_status: "running" if the poll says live, "stopped" if it
\* says exited or raises
_get_sandbox_status(entry, o) ==
  IF PollLive(entry.modal_sandbox_id, o) THEN "running" ELSE "stopped"

\* _get_running_sandbox: the Sandbox if the poll says live, None otherwise
_get_running_sandbox(entry, o) ==
  IF PollLive(entry.modal_sandbox_id, o) THEN entry.modal_sandbox_id ELSE NoSandbox

\* modal.Sandbox.create(...): a new live sandbox
NewSandbox(sandbox_id, cpu, memory, gpu, image) ==
  [owner |-> sandbox_id, status |-> "live", cpu |-> cpu, memory |-> memory,
   gpu |-> gpu, image |-> image]

\* sb.terminate()
Terminated(h) ==
  IF IsLive(h) THEN [sandboxes EXCEPT ![h].status = "exited"] ELSE sandboxes

\* --------------------------------------------------------- request threads
\* a thread is free to take a request
Free(p) == th[p].pc \in {"idle", "done"}

\* the thread's locals when a request begins
Begun(p, kind, sandbox_id, e, label) ==
  [IdleThread EXCEPT !.pc = label, !.kind = kind, !.id = sandbox_id, !.entry = e,
                     !.before = file,
                     !.prev = [kind |-> th[p].kind, id |-> th[p].id],
                     !.expect = IF sandbox_id \in AllIds THEN stopsnap[sandbox_id]
                                ELSE NoSnapshot]

\* the handler returns (result "ok") or raises (result "error")
Returned(t, r) == [t EXCEPT !.pc = "done", !.result = r]

\* a request on sandbox_id begins: one more request, the id's last stop is no
\* longer the last request on it
Begin(p, sandbox_id) ==
  /\ Free(p)
  /\ requests < MaxRequests
  /\ requests' = requests + 1
  /\ stopsnap' = [i \in AllIds |-> IF i = sandbox_id THEN NoSnapshot ELSE stopsnap[i]]

\* a call raises: one more of the behaviour's faults
Fault(o) == faults' = IF o = Ok THEN faults ELSE faults + 1

\* the outcomes a call may still have
Allowed == IF faults < MaxFaults THEN Outcomes ELSE NoFault

Max(a, b) == IF a >= b THEN a ELSE b

SnapshotOf(entries, sandbox_id) ==
  entries[FirstIndex(entries, sandbox_id)].snapshot_image_id

\* maxsnap once `entries` is the registry
Held(entries) ==
  [i \in AllIds |-> IF i \in Ids(entries)
                    THEN Max(maxsnap[i], SnapshotOf(entries, i))
                    ELSE maxsnap[i]]

Set(p, t) == th' = [th EXCEPT ![p] = t]

\* the thread has issued a call, which returned (o = Ok) or raised
Called(t, what, o) ==
  [t EXCEPT !.calls = @ \cup {what},
            !.raised = IF o = Ok THEN @ ELSE @ \cup {what}]

At(t, label) == [t EXCEPT !.pc = label]

\* ------------------------------------------------------- registry writes
\* _write_registry is two blocking steps: open(REGISTRY_PATH, "w"), which
\* truncates the file, and json.dump + close + volume.commit().
OpenLabels == {"c_open", "t_open", "s_open", "d_open"}
DumpLabels == {"c_dump", "t_dump", "s_dump", "d_dump"}
DumpOutcomes == {Ok, Raise, "raise_commit"}
DumpAllowed == IF faults < MaxFaults THEN DumpOutcomes ELSE NoFault

DumpLabel(l) ==
  CASE l = "c_open" -> "c_dump"
    [] l = "t_open" -> "t_dump"
    [] l = "s_open" -> "s_dump"
    [] OTHER -> "d_dump"

\* the thread once _write_registry has returned or raised:
\* _snapshot_and_terminate swallows the exception and goes on to terminate;
\* the other callers return after the write and let an exception propagate
\* (_start_sandbox sets entry["modal_sandbox_id"] before it returns)
AfterWrite(t, o) ==
  IF t.pc \in {"t_open", "t_dump"} THEN At(t, "t_term")
  ELSE IF o /= Ok THEN Returned(t, "error")
  ELSE IF t.pc = "s_dump"
       THEN Returned([t EXCEPT !.entry.modal_sandbox_id = t.sb], "ok")
       ELSE Returned(t, "ok")

\* thread q has loaded the registry and not yet replaced it
InWindow(q) == th[q].pc \in OpenLabels \cup DumpLabels

\* the threads once thread p has loaded the registry (entries =
\* _read_registry()) on its way to a replace, its locals becoming t
Loaded(p, t) ==
  [q \in Procs |->
     IF q = p
     THEN [t EXCEPT !.raced = @ \/ \E r \in Procs \ {p} : InWindow(r)]
     ELSE IF InWindow(q) THEN [th[q] EXCEPT !.raced = TRUE] ELSE th[q]]

\* os.makedirs + open(REGISTRY_PATH, "w")
_write_registry_open(p, o) ==
  LET t == Called(th[p], "write", o)
  IN /\ t.pc \in OpenLabels
     /\ file' = IF o = Ok THEN TruncatedFile ELSE file
     /\ Set(p, IF o = Ok THEN At(t, DumpLabel(t.pc)) ELSE AfterWrite(t, o))
     /\ Fault(o)
     /\ UNCHANGED <<sandboxes, snapshots, workspaces, uuids, requests, life, maxsnap,
                    stopsnap>>

Replaced_merged(f, entries) ==
  JsonFile(entries \o SelectSeq(_read_registry(f),
                                LAMBDA e : e.id \notin Ids(entries)))

\* the file once json.dump(entries, f) has written it: what the file held
\* before plays no part
Replaced(f, entries) == JsonFile(entries)

\* json.dump(entries, f); close; volume.commit()
_write_registry(p, o) ==
  LET t == Called(th[p], "write", o)
      written == o /= Raise
  IN /\ t.pc \in DumpLabels
     /\ file' = IF written THEN Replaced(file, t.buf) ELSE file
     /\ Set(p, AfterWrite(t, o))
     /\ maxsnap' = IF written THEN Held(t.buf) ELSE maxsnap
     /\ life' = IF written /\ t.pc = "c_dump" /\ life[t.id] = "new"
                THEN [life EXCEPT ![t.id] = "added"]
                ELSE IF o = Ok /\ t.pc = "d_dump"
                THEN [life EXCEPT ![t.id] = "deleted"]
                ELSE life
     /\ Fault(o)
     /\ UNCHANGED <<sandboxes, snapshots, workspaces, uuids, requests, stopsnap>>

\* ------------------------------------------------------------------ create
\* the entry dict _create_sandbox builds
NewEntry(sandbox_id, name, object_id, cpu, memory, gpu_type, gpu_count) ==
  [id |-> sandbox_id, name |-> name, modal_sandbox_id |-> object_id, cpu |-> cpu,
   memory |-> memory, gpu_type |-> gpu_type, gpu_count |-> gpu_count,
   snapshot_image_id |-> NoSnapshot]

AfterCreate_goes_on(t, o) == t

\* _create_sandbox once Sandbox.create has returned or raised: an exception
\* propagates to the caller, before the entry dict is built
AfterCreate(t, o) == IF o = Ok THEN t ELSE Returned(t, "error")

\* create_sandbox -> _create_sandbox up to and including Sandbox.create
create_sandbox(p, name, cpu, memory, gpu_type, gpu_count, o) ==
  LET sandbox_id == Cardinality(uuids) + 1
      count == FormGpuCount(gpu_type, gpu_count)
      object_id == Len(sandboxes) + 1
      e == NewEntry(sandbox_id, name, object_id, cpu, memory, gpu_type, count)
      t == [Called(Begun(p, "create", sandbox_id, IF o = Ok THEN e ELSE NoEntry,
                         "c_read"), "create", o)
              EXCEPT !.sb = IF o = Ok THEN object_id ELSE NoSandbox,
                     !.given = gpu_count,
                     !.args = [name |-> name, cpu |-> cpu, memory |-> memory,
                               gpu_type |-> gpu_type, gpu_count |-> count]]
  IN /\ sandbox_id <= MaxEntries
     /\ Begin(p, sandbox_id)
     /\ uuids' = uuids \cup {sandbox_id}
     /\ sandboxes' = IF o = Ok
                     THEN Append(sandboxes,
                            NewSandbox(sandbox_id, cpu, memory,
                                       GpuSpec(gpu_type, count), sandbox_image))
                     ELSE sandboxes
     /\ workspaces' = IF o = Ok THEN workspaces \cup {sandbox_id} ELSE workspaces
     /\ Set(p, AfterCreate(t, o))
     /\ life' = IF o = Ok THEN life ELSE [life EXCEPT ![sandbox_id] = "failed"]
     /\ Fault(o)
     /\ UNCHANGED <<file, snapshots, maxsnap>>

\* _add_registry_entry: entries = _read_registry(); entries.append(entry)
_add_registry_entry(p) ==
  LET t == th[p]
  IN /\ t.pc = "c_read"
     /\ th' = Loaded(p, [t EXCEPT !.pc = "c_open",
                               !.buf = AppendEntry(_read_registry(file), t.entry)])
     /\ UNCHANGED <<file, sandboxes, snapshots, workspaces, uuids, faults, requests,
                    life, maxsnap, stopsnap>>

\* ------------------------------------------------- snapshot and terminate
AfterSnapshot_terminates(taken) == "t_term"

\* where _snapshot_and_terminate goes after sb.snapshot_filesystem(): on to
\* recording the image id in the registry, or, when the call raised, into
\* "except Exception: pass" and on to sb.terminate()
AfterSnapshot(taken) == IF taken THEN "t_read" ELSE "t_term"

\* _snapshot_and_terminate: sb.snapshot_filesystem()
snapshot_filesystem(p, o) ==
  LET taken == o = Ok /\ IsLive(th[p].sb)
      t == Called(th[p], "snapshot", IF taken THEN Ok ELSE Raise)
  IN /\ t.pc = "t_snap"
     /\ snapshots' = IF taken
                     THEN Append(snapshots,
                                 [of |-> t.sb, owner |-> sandboxes[t.sb].owner])
                     ELSE snapshots
     /\ Set(p, [t EXCEPT !.pc = AfterSnapshot(taken),
                         !.img = IF taken THEN Len(snapshots) + 1 ELSE @])
     /\ Fault(o)
     /\ UNCHANGED <<file, sandboxes, workspaces, uuids, requests, life, maxsnap,
                    stopsnap>>

\* _snapshot_and_terminate: entries = _read_registry(); set snapshot_image_id
_snapshot_record(p) ==
  LET t == th[p]
  IN /\ t.pc = "t_read"
     /\ th' = Loaded(p, [t EXCEPT !.pc = "t_open",
                               !.buf = SetSnapshot(_read_registry(file), t.id, t.img)])
     /\ UNCHANGED <<file, sandboxes, snapshots, workspaces, uuids, faults, requests,
                    life, maxsnap, stopsnap>>

\* where _start_sandbox goes after sb.terminate(): on to the re-read, or, when
\* terminate raised, into "except Exception: pass" and on to the create
AfterTerminate(o) == IF o = Ok THEN "s_reread" ELSE "s_create"

\* _snapshot_and_terminate: sb.terminate(); stop_sandbox then returns (it
\* swallows an exception), _start_sandbox goes on
terminate(p, o) ==
  LET t == Called(th[p], "terminate", o)
  IN /\ t.pc = "t_term"
     /\ sandboxes' = IF o = Ok THEN Terminated(t.sb) ELSE sandboxes
     /\ Set(p, IF t.kind = "stop" THEN Returned(t, "ok") ELSE At(t, AfterTerminate(o)))
     /\ stopsnap' = IF t.kind = "stop" THEN [stopsnap EXCEPT ![t.id] = t.img]
                    ELSE stopsnap
     /\ Fault(o)
     /\ UNCHANGED <<file, snapshots, workspaces, uuids, requests, life, maxsnap>>

LookedUp_always(p, kind, sandbox_id, label) ==
  Begun(p, kind, sandbox_id, _get_registry_entry(file, sandbox_id), label)

\* the thread of a start, stop or delete request once the handler has looked
\* the entry up: "if entry:" goes on at `label`, otherwise the handler returns
LookedUp(p, kind, sandbox_id, label) ==
  LET e == _get_registry_entry(file, sandbox_id)
  IN IF e = NoEntry
     THEN Returned(Begun(p, kind, sandbox_id, e, "done"), "ok")
     ELSE Begun(p, kind, sandbox_id, e, label)

OnLive_snapshots(kind) == "t_snap"

\* what a handler does with a sandbox it polled live: _delete_sandbox calls
\* sb.terminate(), start and stop call _snapshot_and_terminate
OnLive(kind) == IF kind = "delete" THEN "d_term" ELSE "t_snap"

\* Sandbox.from_id(entry["modal_sandbox_id"]).poll() is None, in a try block
\* whose except swallows what either call raises
Polled(t, o, live, dead) ==
  [Called(t, "poll", o) EXCEPT !.sb = t.entry.modal_sandbox_id,
                               !.waslive = IsLive(t.entry.modal_sandbox_id),
                               !.pc = IF PollLive(t.entry.modal_sandbox_id, o)
                                      THEN live ELSE dead]

\* ------------------------------------------------------------------- start
\* start_sandbox: entry = _get_registry_entry(sandbox_id); if entry: ...
start_sandbox(p, sandbox_id) ==
  /\ Begin(p, sandbox_id)
  /\ Set(p, LookedUp(p, "start", sandbox_id, "s_poll"))
  /\ UNCHANGED <<file, sandboxes, snapshots, workspaces, uuids, faults, life, maxsnap>>

\* _start_sandbox: old_sb = Sandbox.from_id(...); if old_sb.poll() is None
start_poll(p, o) ==
  /\ th[p].pc = "s_poll"
  /\ Set(p, Polled(th[p], o, OnLive("start"), "s_create"))
  /\ Fault(o)
  /\ UNCHANGED <<file, sandboxes, snapshots, workspaces, uuids, requests, life,
                 maxsnap, stopsnap>>

\* _start_sandbox: entry = _get_registry_entry(entry["id"]) or entry
start_reread(p) ==
  LET t == th[p]
      e == _get_registry_entry(file, t.entry.id)
  IN /\ t.pc = "s_reread"
     /\ Set(p, [t EXCEPT !.pc = "s_create", !.entry = IF e = NoEntry THEN @ ELSE e])
     /\ UNCHANGED <<file, sandboxes, snapshots, workspaces, uuids, faults, requests,
                    life, maxsnap, stopsnap>>

\* _start_sandbox: image = _resolve_sandbox_image(entry); Sandbox.create(...)
\* (oi: whether Image.from_id raises, o: whether Sandbox.create raises)
start_create(p, oi, o) ==
  LET e == th[p].entry
      t == Called(IF e.snapshot_image_id = NoSnapshot THEN th[p]
                  ELSE Called(th[p], "from_id", oi), "create", o)
  IN /\ t.pc = "s_create"
     \* Image.from_id is called only for an entry that has a snapshot
     /\ e.snapshot_image_id = NoSnapshot => oi = Ok
     /\ sandboxes' = IF o = Ok
                     THEN Append(sandboxes,
                            NewSandbox(e.id, e.cpu, e.memory,
                                       GpuSpec(e.gpu_type, e.gpu_count),
                                       _resolve_sandbox_image(e, oi)))
                     ELSE sandboxes
     /\ workspaces' = IF o = Ok THEN workspaces \cup {e.id} ELSE workspaces
     /\ Set(p, IF o = Ok THEN [t EXCEPT !.pc = "s_read", !.sb = Len(sandboxes) + 1]
                         ELSE Returned(t, "error"))
     /\ faults' = faults + (IF oi = Ok THEN 0 ELSE 1) + (IF o = Ok THEN 0 ELSE 1)
     /\ faults' <= MaxFaults
     /\ UNCHANGED <<file, snapshots, uuids, requests, life, maxsnap, stopsnap>>

\* _start_sandbox: entries = _read_registry(); set modal_sandbox_id
start_record(p) ==
  LET t == th[p]
  IN /\ t.pc = "s_read"
     /\ th' = Loaded(p, [t EXCEPT !.pc = "s_open",
                               !.buf = SetSandbox(_read_registry(file), t.entry.id, t.sb)])
     /\ UNCHANGED <<file, sandboxes, snapshots, workspaces, uuids, faults, requests,
                    life, maxsnap, stopsnap>>

\* -------------------------------------------------------------------- stop
\* stop_sandbox: entry = _get_registry_entry(sandbox_id); if entry: ...
stop_sandbox(p, sandbox_id) ==
  /\ Begin(p, sandbox_id)
  /\ Set(p, LookedUp(p, "stop", sandbox_id, "p_poll"))
  /\ UNCHANGED <<file, sandboxes, snapshots, workspaces, uuids, faults, life, maxsnap>>

\* stop_sandbox: sb = Sandbox.from_id(...); if sb.poll() is None: ...
stop_poll(p, o) ==
  LET t == Polled(th[p], o, OnLive("stop"), "done")
  IN /\ th[p].pc = "p_poll"
     /\ Set(p, IF t.pc = "done" THEN Returned(t, "ok") ELSE t)
     /\ Fault(o)
     /\ UNCHANGED <<file, sandboxes, snapshots, workspaces, uuids, requests, life,
                    maxsnap, stopsnap>>

\* ------------------------------------------------------------------ delete
\* delete_sandbox: entry = _get_registry_entry(sandbox_id); if entry: ...
delete_sandbox(p, sandbox_id) ==
  LET t == LookedUp(p, "delete", sandbox_id, "d_poll")
  IN /\ Begin(p, sandbox_id)
     /\ Set(p, t)
     /\ life' = IF t.entry /= NoEntry /\ life[sandbox_id] = "added"
                THEN [life EXCEPT ![sandbox_id] = "deleting"]
                ELSE life
     /\ UNCHANGED <<file, sandboxes, snapshots, workspaces, uuids, faults, maxsnap>>

\* _delete_sandbox: sb = Sandbox.from_id(...); if sb.poll() is None
delete_poll(p, o) ==
  /\ th[p].pc = "d_poll"
  /\ Set(p, Polled(th[p], o, OnLive("delete"), "d_rm"))
  /\ Fault(o)
  /\ UNCHANGED <<file, sandboxes, snapshots, workspaces, uuids, requests, life,
                 maxsnap, stopsnap>>

\* _delete_sandbox: sb.terminate(), an exception swallowed
delete_terminate(p, o) ==
  LET t == Called(th[p], "terminate", o)
  IN /\ t.pc = "d_term"
     /\ sandboxes' = IF o = Ok THEN Terminated(t.sb) ELSE sandboxes
     /\ Set(p, At(t, "d_rm"))
     /\ Fault(o)
     /\ UNCHANGED <<file, snapshots, workspaces, uuids, requests, life, maxsnap,
                    stopsnap>>

\* _delete_sandbox: volume.remove_file(workspace_dir, recursive=True), an
\* exception swallowed
remove_file(p, o) ==
  LET t == Called(th[p], "remove", o)
  IN /\ t.pc = "d_rm"
     /\ workspaces' = IF o = Ok THEN workspaces \ {t.entry.id} ELSE workspaces
     /\ Set(p, At(t, "d_read"))
     /\ Fault(o)
     /\ UNCHANGED <<file, sandboxes, snapshots, uuids, requests, life, maxsnap,
                    stopsnap>>

\* _remove_registry_entry: entries = _read_registry(); filter by id
_remove_registry_entry(p) ==
  LET t == th[p]
  IN /\ t.pc = "d_read"
     /\ th' = Loaded(p, [t EXCEPT !.pc = "d_open",
                               !.buf = RemoveEntry(_read_registry(file), t.entry.id)])
     /\ UNCHANGED <<file, sandboxes, snapshots, workspaces, uuids, faults, requests,
                    life, maxsnap, stopsnap>>

\* --------------------------------------------------------------- dashboard
\* dashboard: entries = _read_registry(); sandboxes = []
dashboard(p) ==
  LET entries == _read_registry(file)
      t == [Begun(p, "dashboard", 0, NoEntry, "l_poll") EXCEPT !.buf = entries]
  IN /\ Begin(p, 0)
     /\ Set(p, IF entries = <<>> THEN Returned(t, "ok") ELSE t)
     /\ UNCHANGED <<file, sandboxes, snapshots, workspaces, uuids, faults, life, maxsnap>>

Annotated_prunes(f, e, status) ==
  IF status = "stopped" THEN JsonFile(RemoveEntry(_read_registry(f), e.id)) ELSE f

\* the registry file once the dashboard has annotated entry e:
\* sandboxes.append({**entry, "status": status}) builds a copy for the page
\* and writes nothing back
Annotated(f, e, status) == f

AfterPoll_aborts(t, o) ==
  IF o /= Ok THEN Returned(t, "error")
  ELSE IF Len(t.view) = Len(t.buf) THEN Returned(t, "ok") ELSE t

\* the dashboard once _get_sandbox_status has returned for an entry: on to
\* the next entry, or, after the last one, the page is returned
AfterPoll(t, o) == IF Len(t.view) = Len(t.buf) THEN Returned(t, "ok") ELSE t

\* dashboard: status = _get_sandbox_status(entry); sandboxes.append(...), for
\* the next entry of the loop
dashboard_poll(p, o) ==
  LET k == Len(th[p].view) + 1
      e == th[p].buf[k]
      t == [Called(th[p], "poll", o)
              EXCEPT !.view = Append(@, [entry |-> e,
                                         status |-> _get_sandbox_status(e, o)]),
                     !.obs = Append(@, [o |-> o, live |-> IsLive(e.modal_sandbox_id)])]
  IN /\ th[p].pc = "l_poll"
     /\ Set(p, AfterPoll(t, o))
     /\ file' = Annotated(file, e, _get_sandbox_status(e, o))
     /\ Fault(o)
     /\ UNCHANGED <<sandboxes, snapshots, workspaces, uuids, requests, life, maxsnap,
                    stopsnap>>

\* ---------------------------------------------------------------- platform
\* a live sandbox exits on its own (its process ends, or SANDBOX_TIMEOUT)
Exit(h) ==
  /\ IsLive(h)
  /\ sandboxes' = [sandboxes EXCEPT ![h].status = "exited"]
  /\ UNCHANGED <<file, snapshots, workspaces, uuids, th, faults, requests, life,
                 maxsnap, stopsnap>>

\* ----------------------------------------------------------- specifications
\* concurrent request threads; the platform and the volume do not fail
Next ==
  \/ \E p \in Procs :
       \/ \E f \in ConcForms :
            create_sandbox(p, f.name, f.cpu, f.memory, f.gpu_type, f.gpu_count, Ok)
       \/ _add_registry_entry(p)
       \/ \E i \in AllIds : start_sandbox(p, i)
       \/ start_poll(p, Ok)
       \/ start_reread(p)
       \/ start_create(p, Ok, Ok)
       \/ start_record(p)
       \/ \E i \in AllIds : stop_sandbox(p, i)
       \/ stop_poll(p, Ok)
       \/ snapshot_filesystem(p, Ok)
       \/ _snapshot_record(p)
       \/ terminate(p, Ok)
       \/ \E i \in AllIds : delete_sandbox(p, i)
       \/ delete_poll(p, Ok)
       \/ delete_terminate(p, Ok)
       \/ remove_file(p, Ok)
       \/ _remove_registry_entry(p)
       \/ _write_registry_open(p, Ok)
       \/ _write_registry(p, Ok)
       \/ dashboard(p)
       \/ dashboard_poll(p, Ok)
  \/ \E h \in 1 .. Len(sandboxes) : Exit(h)

Spec == Init /\ [][Next]_vars

\* one request at a time; every call to the platform or the volume may raise
NextSeq ==
  \/ \E p \in SeqProcs :
       \/ \E f \in Forms, o \in Allowed :
            create_sandbox(p, f.name, f.cpu, f.memory, f.gpu_type, f.gpu_count, o)
       \/ _add_registry_entry(p)
       \/ \E i \in AllIds : start_sandbox(p, i)
       \/ \E o \in Allowed : start_poll(p, o)
       \/ start_reread(p)
       \/ \E oi \in Allowed, o \in Allowed : start_create(p, oi, o)
       \/ start_record(p)
       \/ \E i \in AllIds : stop_sandbox(p, i)
       \/ \E o \in Allowed : stop_poll(p, o)
       \/ \E o \in Allowed : snapshot_filesystem(p, o)
       \/ _snapshot_record(p)
       \/ \E o \in Allowed : terminate(p, o)
       \/ \E i \in AllIds : delete_sandbox(p, i)
       \/ \E o \in Allowed : delete_poll(p, o)
       \/ \E o \in Allowed : delete_terminate(p, o)
       \/ \E o \in Allowed : remove_file(p, o)
       \/ _remove_registry_entry(p)
       \/ \E o \in Allowed : _write_registry_open(p, o)
       \/ \E o \in DumpAllowed : _write_registry(p, o)
       \/ dashboard(p)
       \/ \E o \in Allowed : dashboard_poll(p, o)
  \/ \E h \in 1 .. Len(sandboxes) : Exit(h)

SpecSeq == Init /\ [][NextSeq]_vars

\* concurrent create requests only, with either form; nothing fails
NextCreate ==
  \/ \E p \in Procs :
       \/ \E f \in Forms :
            create_sandbox(p, f.name, f.cpu, f.memory, f.gpu_type, f.gpu_count, Ok)
       \/ _add_registry_entry(p)
       \/ _write_registry_open(p, Ok)
       \/ _write_registry(p, Ok)
  \/ \E h \in 1 .. Len(sandboxes) : Exit(h)

SpecCreate == Init /\ [][NextCreate]_vars

\* one request at a time, create and start only, with every form; nothing
\* fails
NextGpu ==
  \/ \E p \in SeqProcs :
       \/ \E f \in GpuForms :
            create_sandbox(p, f.name, f.cpu, f.memory, f.gpu_type, f.gpu_count, Ok)
       \/ _add_registry_entry(p)
       \/ \E i \in AllIds : start_sandbox(p, i)
       \/ start_poll(p, Ok)
       \/ start_reread(p)
       \/ start_create(p, Ok, Ok)
       \/ start_record(p)
       \/ snapshot_filesystem(p, Ok)
       \/ _snapshot_record(p)
       \/ terminate(p, Ok)
       \/ _write_registry_open(p, Ok)
       \/ _write_registry(p, Ok)
  \/ \E h \in 1 .. Len(sandboxes) : Exit(h)

SpecGpu == Init /\ [][NextGpu]_vars

\* ------------------------------------------------------------------ claims
\* the live sandboxes that were created for an entry id
LiveOf(sandbox_id) ==
  {h \in 1 .. Len(sandboxes) : IsLive(h) /\ sandboxes[h].owner = sandbox_id}

\* the request of thread p has returned or raised
Done(p, kind) == th[p].pc = "done" /\ th[p].kind = kind

\* the handler found the entry and its poll said the recorded sandbox is live
SawLive(p) ==
  /\ th[p].entry /= NoEntry
  /\ th[p].waslive
  /\ "poll" \in th[p].calls \ th[p].raised

\* no other thread is working on, or last worked on, the id of thread p
Alone(p) == \A q \in Procs \ {p} : th[q].id /= th[p].id

\* C1: under any interleaving of create, start, stop and delete requests, no
\* two sandboxes created for the same entry id are live at once.
C1_OneLivePerEntry == \A i \in AllIds : Cardinality(LiveOf(i)) <= 1

\* C2: when start runs alone on an entry whose recorded sandbox is polled as
\* live, then whatever snapshot and terminate did, once start has returned
\* no sandbox of the entry other than the newly created one is live.
C2_StartLeavesOnlyNew ==
  \A p \in SeqProcs :
    Done(p, "start") /\ th[p].result = "ok" /\ SawLive(p)
      => LiveOf(th[p].id) \subseteq {th[p].sb}

\* C3: when stop saw the recorded sandbox live and the snapshot step failed
\* (snapshot_filesystem raised or the registry write recording it raised),
\* stop has still called terminate and no sandbox of the entry is live once
\* stop has returned.
C3_StopLeavesNoneLive ==
  \A p \in SeqProcs :
    Done(p, "stop") /\ SawLive(p) /\ th[p].raised \cap {"snapshot", "write"} /= {}
      => /\ "terminate" \in th[p].calls
         /\ LiveOf(th[p].id) = {}

\* C4: once a delete of an id has completed, no later registry holds an entry
\* of that id, whatever else was in flight or runs afterwards.
C4_DeletedIsTerminal ==
  \A i \in AllIds : life[i] = "deleted" => i \notin Ids(_read_registry(file))

\* C5: an entry that was added stays in every later (readable) registry until
\* a delete naming its id is issued.
C5_EntryStaysUntilDeleted ==
  \A i \in AllIds : life[i] = "added" /\ file.st = "ok" => i \in Ids(file.data)

\* C6: in every (readable) registry an entry's snapshot_image_id is the latest
\* snapshot the registry has ever held for that id: never unset again, never
\* an earlier one.
C6_SnapshotNeverOlder ==
  \A i \in AllIds :
    file.st = "ok" /\ i \in Ids(file.data) => SnapshotOf(file.data, i) >= maxsnap[i]

\* C7: a start that is the next request on an entry after a stop that took
\* snapshot S creates the new sandbox from image S, and so does a start that
\* took snapshot S itself because it found the recorded sandbox live.
C7_StartBootsFromSnapshot ==
  \A p \in Procs :
    th[p].pc = "s_read" /\ Alone(p)
      => /\ th[p].expect /= NoSnapshot /\ th[p].img = NoSnapshot
              => sandboxes[th[p].sb].image = th[p].expect
         /\ th[p].img /= NoSnapshot => sandboxes[th[p].sb].image = th[p].img

\* C8: a delete of an existing entry, whatever the poll, the terminate and the
\* workspace removal did, returns and leaves the registry without an entry of
\* that id, so that _get_registry_entry finds nothing.
C8_DeleteRemovesEntry ==
  \A p \in SeqProcs :
    Done(p, "delete") /\ th[p].entry /= NoEntry /\ "write" \notin th[p].raised
      => /\ th[p].result = "ok"
         /\ th[p].id \notin Ids(_read_registry(file))
         /\ _get_registry_entry(file, th[p].id) = NoEntry

\* a delete returned although terminate and the workspace removal both raised
C8_Witness ==
  \E p \in SeqProcs :
    /\ Done(p, "delete") /\ th[p].entry /= NoEntry /\ th[p].result = "ok"
    /\ {"terminate", "remove"} \subseteq th[p].raised
    /\ Len(_read_registry(th[p].before)) = 2
    /\ Len(_read_registry(file)) = 1

\* C9: a stop of an entry whose recorded sandbox is not live only polls: it
\* takes no snapshot, calls no terminate, writes no registry, raises nothing
\* and leaves the registry file as it was; so does a second one after it.
C9_StopOfStoppedIsNoOp ==
  \A p \in SeqProcs :
    Done(p, "stop") /\ th[p].entry /= NoEntry /\ ~th[p].waslive
      => /\ th[p].calls = {"poll"}
         /\ th[p].img = NoSnapshot
         /\ th[p].result = "ok"
         /\ file = th[p].before

\* the second of two stops in a row of an entry whose sandbox has exited
C9_Witness ==
  \E p \in SeqProcs :
    /\ Done(p, "stop") /\ th[p].entry /= NoEntry /\ ~th[p].waslive
    /\ th[p].prev = [kind |-> "stop", id |-> th[p].id]
    /\ LiveOf(th[p].id) = {}

\* C10: after a create that returned, the registry is the one it found with
\* one entry appended, whose modal_sandbox_id is the sandbox Sandbox.create
\* returned, which has no snapshot_image_id and the resources given; its
\* status is "running" while that sandbox is live.
C10_CreateAppendsEntry ==
  \A p \in SeqProcs :
    Done(p, "create") /\ th[p].result = "ok"
      => LET old == _read_registry(th[p].before)
             e == file.data[Len(old) + 1]
         IN /\ file.st = "ok"
            /\ Len(file.data) = Len(old) + 1
            /\ SubSeq(file.data, 1, Len(old)) = old
            /\ e.id = th[p].id /\ e.id \notin Ids(old)
            /\ e.modal_sandbox_id = th[p].sb
            /\ sandboxes[th[p].sb].owner = e.id
            /\ e.snapshot_image_id = NoSnapshot
            /\ [f \in DOMAIN NoArgs |-> e[f]] = th[p].args
            /\ IsLive(th[p].sb) => _get_sandbox_status(e, Ok) = "running"

\* a second create returned, with a GPU, and its sandbox is live
C10_Witness ==
  \E p \in SeqProcs :
    /\ Done(p, "create") /\ th[p].result = "ok"
    /\ Len(_read_registry(th[p].before)) = 1
    /\ th[p].args.gpu_type /= ""
    /\ IsLive(th[p].sb)

\* C11: when Sandbox.create raises in a create request, the handler raises,
\* has read and written no registry, the registry file is the one it found,
\* and no registry ever holds an entry of the id drawn for that request.
C11_FailedCreateWritesNothing ==
  /\ \A p \in SeqProcs :
       Done(p, "create") /\ "create" \in th[p].raised
         => /\ th[p].result = "error"
            /\ th[p].calls = {"create"}
            /\ file = th[p].before
            /\ th[p].sb = NoSandbox
  /\ \A i \in AllIds : life[i] = "failed" => i \notin Ids(_read_registry(file))

\* a create raised on a registry that holds an entry, and a later request
\* has rewritten the registry since
C11_Witness ==
  \E p \in SeqProcs, i \in AllIds :
    /\ life[i] = "failed"
    /\ i \in uuids
    /\ Done(p, "start") /\ "write" \in th[p].calls
    /\ th[p].prev = [kind |-> "create", id |-> i]
    /\ Len(_read_registry(file)) = 1

\* the entries list holds entry e
Holds(entries, e) == \E k \in 1 .. Len(entries) : entries[k] = e

\* C12: when two create requests with different names have both returned and
\* neither's registry load fell between the other's load and replace, the
\* registry (whenever no later write has it truncated) holds an entry for
\* each, with distinct ids and the names given, besides every entry either of
\* them found.
C12_BothCreatesKept ==
  \A p, q \in Procs :
    /\ p /= q
    /\ Done(p, "create") /\ th[p].result = "ok" /\ ~th[p].raced
    /\ Done(q, "create") /\ th[q].result = "ok" /\ ~th[q].raced
    /\ th[p].args.name /= th[q].args.name
    /\ file.st = "ok"
    => /\ Holds(file.data, th[p].entry) /\ th[p].entry.name = th[p].args.name
       /\ Holds(file.data, th[q].entry) /\ th[q].entry.name = th[q].args.name
       /\ th[p].entry.id /= th[q].entry.id
       /\ \A k \in 1 .. Len(file.data), l \in 1 .. Len(file.data) :
            file.data[k].id = file.data[l].id => k = l
       /\ Ids(_read_registry(th[p].before)) \subseteq Ids(file.data)
       /\ Ids(_read_registry(th[q].before)) \subseteq Ids(file.data)

\* two creates with different names overlapped (the second called
\* Sandbox.create before the first had written) without racing on the registry
C12_Witness ==
  \E p, q \in Procs :
    /\ p /= q
    /\ Done(p, "create") /\ th[p].result = "ok" /\ ~th[p].raced
    /\ Done(q, "create") /\ th[q].result = "ok" /\ ~th[q].raced
    /\ th[p].args.name /= th[q].args.name
    /\ th[q].before /= JsonFile(<<th[p].entry>>)
    /\ th[p].before = MissingFile
    /\ file = JsonFile(<<th[p].entry, th[q].entry>>)

\* C13: a replace is unconditional and silent: whatever the registry holds
\* when a request's json.dump completes, the registry becomes the list that
\* request loaded and modified, and the request does not raise.  So of two
\* requests that both loaded before either replaced, the one replacing last
\* discards the other's change (C13_Witness is such a state).
C13_LastReplaceWins ==
  [][\A p \in Procs :
       th[p].pc \in DumpLabels /\ th'[p].pc \notin DumpLabels
         => file' = JsonFile(th[p].buf) /\ th'[p].result /= "error"]_vars

\* two creates (of different entries) both loaded the registry before either
\* replaced it, both returned without error, and the registry holds the
\* entry of one of them only
C13_Witness ==
  \E p, q \in Procs :
    /\ p /= q
    /\ Done(p, "create") /\ th[p].result = "ok" /\ th[p].raced
    /\ Done(q, "create") /\ th[q].result = "ok" /\ th[q].raced
    /\ th[p].id /= th[q].id
    /\ th[p].buf = <<th[p].entry>> /\ th[q].buf = <<th[q].entry>>
    /\ life[th[p].id] = "added" /\ life[th[q].id] = "added"
    /\ file = JsonFile(<<th[q].entry>>)

\* C14: the status the dashboard computes for an entry is "running" exactly
\* when the poll of its recorded sandbox did not raise and the sandbox had
\* not exited; otherwise it is "stopped", and the request does not raise.
\* _get_running_sandbox returns a Sandbox in exactly the same cases.
C14_StatusOptimisticNegative ==
  /\ \A p \in SeqProcs :
       th[p].kind = "dashboard"
         => /\ th[p].result /= "error"
            /\ Len(th[p].obs) = Len(th[p].view)
            /\ \A k \in 1 .. Len(th[p].view) :
                 /\ th[p].view[k].status \in {"running", "stopped"}
                 /\ th[p].view[k].status = "running"
                      <=> th[p].obs[k].o = Ok /\ th[p].obs[k].live
  /\ \A k \in 1 .. Len(_read_registry(file)), o \in Outcomes :
       LET e == _read_registry(file)[k]
       IN _get_running_sandbox(e, o) /= NoSandbox
            <=> _get_sandbox_status(e, o) = "running"

\* a dashboard reported one entry running and another, whose sandbox was
\* live but whose poll raised, stopped
C14_Witness ==
  \E p \in SeqProcs :
    /\ Done(p, "dashboard")
    /\ \E k, l \in 1 .. Len(th[p].view) :
         /\ th[p].view[k].status = "running"
         /\ th[p].view[l].status = "stopped"
         /\ th[p].obs[l].o = Raise /\ th[p].obs[l].live

\* C15: a start, stop or delete of an id that no registry entry has makes no
\* call to the platform or the volume (no poll, snapshot, terminate, create,
\* workspace removal or registry write), returns without error and leaves
\* the registry file as it was.
C15_UnknownIdIsNoOp ==
  \A p \in SeqProcs :
    /\ th[p].kind \in {"start", "stop", "delete"}
    /\ th[p].id \notin Ids(_read_registry(th[p].before))
    => /\ th[p].pc = "done" /\ th[p].result = "ok"
       /\ th[p].calls = {}
       /\ th[p].sb = NoSandbox /\ th[p].img = NoSnapshot
       /\ file = th[p].before

\* a delete and, before it, a stop of an id that is not in a registry that
\* holds another entry, whose sandbox is live and whose workspace exists
C15_Witness ==
  \E p \in SeqProcs, i \in AllIds :
    /\ Done(p, "delete") /\ th[p].entry = NoEntry
    /\ th[p].prev = [kind |-> "stop", id |-> th[p].id]
    /\ i /= th[p].id /\ i \in Ids(_read_registry(file))
    /\ LiveOf(i) /= {} /\ i \in workspaces

\* thread p is in, or has returned from, a stop whose snapshot_filesystem
\* returned an image and which is about to call terminate or has called it
StopTookSnapshot(p) ==
  /\ th[p].kind = "stop" /\ th[p].img /= NoSnapshot
  /\ th[p].pc \in {"t_term", "done"}

\* the registry holds the image thread p took as the snapshot of its entry
SnapshotRecorded(p) ==
  /\ th[p].id \in Ids(_read_registry(file))
  /\ SnapshotOf(_read_registry(file), th[p].id) = th[p].img

C17_ReadPathLeavesRegistry ==
  [][\A p \in SeqProcs :
       /\ th'[p] /= th[p]
       /\ \/ th'[p].kind = "dashboard"
          \/ Free(p) /\ th'[p].kind \in {"start", "stop", "delete"}
       => file' = file]_vars

\* a dashboard has returned after a poll showed it that the sandbox recorded
\* for an entry has exited, and the registry is the one it loaded
C17_Witness ==
  \E p \in SeqProcs :
    /\ Done(p, "dashboard")
    /\ \E k \in 1 .. Len(th[p].view) :
         /\ th[p].obs[k] = [o |-> Ok, live |-> FALSE]
         /\ th[p].view[k].status = "stopped"
    /\ file = th[p].before
    /\ file = JsonFile(th[p].buf)

\* C18: whichever of its polls raise, the dashboard returns one item per
\* entry of the registry it loaded, in the registry's order; the status of
\* an item whose poll raised is "stopped", and the status of every other
\* item is what its own poll says, as if no poll had raised.
C18_DashboardItemPerEntry ==
  \A p \in SeqProcs :
    Done(p, "dashboard")
      => LET entries == _read_registry(th[p].before)
         IN /\ th[p].result = "ok"
            /\ Len(th[p].view) = Len(entries)
            /\ \A k \in 1 .. Len(entries) :
                 /\ th[p].view[k].entry = entries[k]
                 /\ th[p].obs[k].o /= Ok => th[p].view[k].status = "stopped"
                 /\ th[p].obs[k].o = Ok
                      => th[p].view[k].status =
                           IF th[p].obs[k].live THEN "running" ELSE "stopped"

\* the first of a dashboard's two polls raised, on a live sandbox, and the
\* second entry is still reported running
C18_Witness ==
  \E p \in SeqProcs :
    /\ Done(p, "dashboard")
    /\ Len(th[p].view) = 2
    /\ th[p].obs[1] = [o |-> Raise, live |-> TRUE]
    /\ th[p].view[1].status = "stopped"
    /\ th[p].obs[2] = [o |-> Ok, live |-> TRUE]
    /\ th[p].view[2].status = "running"

\* C19: _read_registry gives the empty list when the file is missing or is
\* not JSON, and otherwise the list the last completed json.dump wrote (the
\* readable content changes only by a dump, to the list dumped, or by a
\* truncation, to nothing).  A request that finds the file missing or
\* unparsable, and none of whose calls raises, proceeds as on an empty
\* registry: a create writes the registry of its one entry, a dashboard
\* returns an empty page, a start, stop or delete is a no-op.
C19_LoadToleratesBadFile ==
  /\ [](/\ file.st \in {"missing", "corrupt", "ok"}
        /\ file.st /= "ok" => _read_registry(file) = <<>>
        /\ file.st = "ok" => _read_registry(file) = file.data
        /\ \A p \in SeqProcs :
             th[p].pc = "done" /\ th[p].before.st /= "ok" /\ th[p].raised = {}
               => /\ th[p].result = "ok"
                  /\ th[p].kind = "create" => file = JsonFile(<<th[p].entry>>)
                  /\ th[p].kind = "dashboard" => th[p].view = <<>> /\ file = th[p].before
                  /\ th[p].kind \in {"start", "stop", "delete"}
                       => th[p].calls = {} /\ file = th[p].before)
  /\ [][_read_registry(file') /= _read_registry(file)
          => \E p \in SeqProcs :
               \/ /\ th[p].pc \in DumpLabels
                  /\ _read_registry(file') = th[p].buf
               \/ /\ th[p].pc \in OpenLabels
                  /\ _read_registry(file') = <<>>]_vars

\* a create found the registry unparsable (an earlier json.dump had raised
\* on the truncated file, losing an entry) and has written its own entry
C19_Witness ==
  \E p \in SeqProcs, i \in AllIds :
    /\ Done(p, "create") /\ th[p].result = "ok"
    /\ th[p].before = TruncatedFile
    /\ life[i] = "added" /\ i /= th[p].id
    /\ file = JsonFile(<<th[p].entry>>)

\* thread p is in, or has returned from, a start whose Sandbox.create
\* returned the sandbox th[p].sb
StartCreated(p) ==
  /\ th[p].kind = "start"
  /\ "create" \in th[p].calls \ th[p].raised
  /\ th[p].pc \in {"s_read", "s_open", "s_dump", "done"}

Kept(e) ==
  [id |-> e.id, name |-> e.name, cpu |-> e.cpu, memory |-> e.memory,
   gpu_type |-> e.gpu_type, gpu_count |-> e.gpu_count]

\* C21: once a start of an existing entry has returned, the sandbox it
\* created has the cpu, memory and gpu of the entry; the registry is the one
\* it found except that the entry's modal_sandbox_id is the new sandbox,
\* which differs from the one recorded before: the entry's id, name and
\* resources and every other entry are as they were.
C21_StartReplacesHandleOnly ==
  \A p \in SeqProcs :
    Done(p, "start") /\ th[p].result = "ok" /\ th[p].entry /= NoEntry
      => LET old == _read_registry(th[p].before)
             new == _read_registry(file)
             k == FirstIndex(old, th[p].id)
             sb == sandboxes[th[p].sb]
         IN /\ sb.owner = th[p].id
            /\ sb.cpu = old[k].cpu /\ sb.memory = old[k].memory
            /\ sb.gpu = GpuSpec(old[k].gpu_type, old[k].gpu_count)
            /\ Len(new) = Len(old)
            /\ \A j \in 1 .. Len(old) : j /= k => new[j] = old[j]
            /\ Kept(new[k]) = Kept(old[k])
            /\ new[k].modal_sandbox_id = th[p].sb
            /\ th[p].sb /= old[k].modal_sandbox_id

\* C22: the sandbox a create or a start creates has a GPU exactly when the
\* GPU type (of the form, of the entry) is non-empty and the GPU count is
\* strictly positive, and then it is that type and count; otherwise it has
\* none.
C22_GpuOnlyWithTypeAndCount ==
  \A p \in SeqProcs :
    /\ th[p].kind = "create" /\ th[p].sb /= NoSandbox
         => sandboxes[th[p].sb].gpu =
              IF th[p].args.gpu_type /= "" /\ th[p].given > 0
              THEN <<th[p].args.gpu_type, th[p].given>>
              ELSE NoGpu
    /\ StartCreated(p)
         => sandboxes[th[p].sb].gpu =
              IF th[p].entry.gpu_type /= "" /\ th[p].entry.gpu_count > 0
              THEN <<th[p].entry.gpu_type, th[p].entry.gpu_count>>
              ELSE NoGpu

\* a start has created a sandbox with a GPU, and a sandbox created for an
\* entry with a GPU type and count 0 has none
C22_Witness ==
  \E p \in SeqProcs, h \in 1 .. Len(sandboxes) :
    /\ StartCreated(p)
    /\ sandboxes[th[p].sb].gpu /= NoGpu
    /\ sandboxes[h].gpu = NoGpu
    /\ LET e == _get_registry_entry(file, sandboxes[h].owner)
       IN e.gpu_type /= "" /\ e.gpu_count = 0 /\ e.modal_sandbox_id = h

\* C23: a delete never calls snapshot_filesystem and holds no snapshot
\* image; the registry file is, throughout, the one it found, truncated, or
\* the one it found without the entry, so it writes no snapshot_image_id.
\* When it polled the recorded sandbox live it calls terminate before it
\* removes the workspace, and the sandbox is no longer live unless terminate
\* raised.
C23_DeleteTakesNoSnapshot ==
  \A p \in SeqProcs :
    th[p].kind = "delete" /\ th[p].entry /= NoEntry
      => /\ "snapshot" \notin th[p].calls
         /\ th[p].img = NoSnapshot
         /\ file \in {th[p].before, TruncatedFile,
                      JsonFile(RemoveEntry(_read_registry(th[p].before), th[p].id))}
         /\ SawLive(p) /\ th[p].pc \notin {"d_poll", "d_term"}
              => /\ "terminate" \in th[p].calls
                 /\ "terminate" \notin th[p].raised => ~IsLive(th[p].sb)

\* a delete found its sandbox live and has terminated it; the entry that
\* remains in the registry has the snapshot it had
C23_Witness ==
  \E p \in SeqProcs, i \in AllIds :
    /\ Done(p, "delete") /\ th[p].result = "ok" /\ SawLive(p)
    /\ "terminate" \in th[p].calls \ th[p].raised
    /\ ~IsLive(th[p].sb)
    /\ i \in Ids(_read_registry(file))
    /\ _get_registry_entry(file, i) = _get_registry_entry(th[p].before, i)
    /\ Len(snapshots) = 0

\* C24: when Sandbox.create raises inside a start, the start returns an
\* error and the registry still holds the entry, with the modal_sandbox_id
\* it had when the start began.
C24_FailedStartKeepsHandle ==
  \A p \in SeqProcs :
    Done(p, "start") /\ "create" \in th[p].raised
      => /\ th[p].result = "error"
         /\ th[p].id \in Ids(_read_registry(file))
         /\ _get_registry_entry(file, th[p].id).modal_sandbox_id =
              _get_registry_entry(th[p].before, th[p].id).modal_sandbox_id

\* C25: whenever no handler is running, every live sandbox is the
\* modal_sandbox_id of some entry of the registry.
C25_NoOrphanedLiveSandbox ==
  (\A p \in SeqProcs : Free(p))
    => \A h \in 1 .. Len(sandboxes) :
         IsLive(h) => \E i \in Ids(_read_registry(file)) :
                        _get_registry_entry(file, i).modal_sandbox_id = h

====
